---- MODULE Spec2Model ----
(***************************************************************************)
(* DebugVisualizer (debug_analizer.py): the trace collector                *)
(* DebugFlowVisualizer, the runtime API debug_..., the syntax-tree         *)
(* transformer DebugTransformer and the execution of the instrumented      *)
(* program.                                                                *)
(*                                                                         *)
(* Python text is a sequence of string tokens (its concatenation is the    *)
(* text), so an f-string is a concatenation of sequences.  Python values   *)
(* are tagged records.                                                     *)
(***************************************************************************)
EXTENDS Integers, Sequences, FiniteSets, TLC

VARIABLES
    dot,                \* visualizer.dot: the statements of the Digraph body
    node_count,         \* visualizer.node_count
    current_function,   \* visualizer.current_function
    execution_path,     \* visualizer.execution_path
    loop_stack,         \* visualizer.loop_stack
    prog,               \* the parsed source file given to instrument_file
    status,             \* "init", "running", "done", "rendered", "raised" (an uncaught exception)
    stack,              \* the continuation of the running program, innermost first
    ctl,                \* what the interpreter does next
    globals,            \* the global namespace exec runs the program in
    out,                \* standard output: one entry for each call of print
    reports,            \* the number of runtime API entry points called so far
    returned,           \* the values the calls of the program's functions returned, in order
    rendered,           \* the graphs handed to the renderer (dot.render), in order
    heap,               \* where this process allocates: the address a default repr shows
    first,              \* SpecPair: the record of the first of two sessions that are compared
    threads             \* SpecThreads: each thread's position in add_node and its locals

vizVars == <<dot, node_count, current_function, execution_path, loop_stack>>

\* what a run is given and what lies outside the instrumented program's execution
envVars == <<prog, rendered, heap, first, threads>>

runVars == <<envVars, status, stack, ctl, globals, out, reports, returned>>

vars == <<dot, node_count, current_function, execution_path, loop_stack,
          prog, status, stack, ctl, globals, out, reports, returned,
          rendered, heap, first, threads>>

\* ------------------------------------------------------------------ bounds

\* SpecAPI: the number of runtime API calls of one session
MaxNodes == 3

\* ------------------------------------------------------------------ values

NoneV == [t |-> "None"]
IntV(n) == [t |-> "int", n |-> n]
BoolV(b) == [t |-> "bool", b |-> b]
StrV(s) == [t |-> "str", s |-> s]
ListV(xs) == [t |-> "list", xs |-> xs]
TupleV(xs) == [t |-> "tuple", xs |-> xs]

\* sep.join(parts), parts a sequence of texts
RECURSIVE Join(_, _)
Join(sep, parts) ==
    IF parts = <<>> THEN <<>>
    ELSE IF Len(parts) = 1 THEN parts[1]
    ELSE parts[1] \o sep \o Join(sep, Tail(parts))

\* repr(v)
RECURSIVE Repr(_)
Repr(v) ==
    CASE v.t = "None" -> <<"None">>
      [] v.t = "int" -> <<ToString(v.n)>>
      [] v.t = "bool" -> IF v.b THEN <<"True">> ELSE <<"False">>
      [] v.t = "str" -> <<"'">> \o v.s \o <<"'">>
      [] v.t = "list" ->
            <<"[">> \o Join(<<", ">>, [i \in 1..Len(v.xs) |-> Repr(v.xs[i])]) \o <<"]">>
      [] v.t = "tuple" ->
            <<"(">> \o Join(<<", ">>, [i \in 1..Len(v.xs) |-> Repr(v.xs[i])])
                \o (IF Len(v.xs) = 1 THEN <<",">> ELSE <<>>) \o <<")">>
      [] v.t \in {"function", "wrapper"} -> <<"<function ", v.name, " at ", v.at, ">">>
      [] v.t = "class" -> <<"<class '", v.name, "'>">>
      [] OTHER -> <<"<object>">>

\* str(v), as an f-string field {v} formats it
Str(v) == IF v.t = "str" THEN v.s ELSE Repr(v)

\* ------------------------------------------------------------------ DebugFlowVisualizer

NodeStmt(name, label, shape) ==
    [stmt |-> "node", name |-> name, label |-> label, shape |-> shape]

EdgeStmt(tail, head) == [stmt |-> "edge", tail |-> tail, head |-> head]

\* f'node_{n}'
NodeId(n) == <<"node_", n>>
\* the number in an identifier
IdNum(id) == id[2]

\* add_node with the edge drawn from the first node of the path, not the last
add_node_edge_from_first(label, result, shape) ==
    LET node_id == NodeId(node_count)
        dot1 == Append(dot, NodeStmt(node_id, label, shape))
    IN  /\ node_count' = node_count + 1
        /\ dot' = IF execution_path # <<>>
                  THEN Append(dot1, EdgeStmt(execution_path[1], node_id))
                  ELSE dot1
        /\ execution_path' = Append(execution_path, node_id)
        /\ UNCHANGED loop_stack

\* add_node without the increment of node_count
add_node_no_increment(label, result, shape) ==
    LET node_id == NodeId(node_count)
        dot1 == Append(dot, NodeStmt(node_id, label, shape))
    IN  /\ node_count' = node_count
        /\ dot' = IF execution_path # <<>>
                  THEN Append(dot1, EdgeStmt(execution_path[Len(execution_path)], node_id))
                  ELSE dot1
        /\ execution_path' = Append(execution_path, node_id)
        /\ UNCHANGED loop_stack

\* add_node(label, result=None, shape='box'); result is NoneV when not given
add_node(label, result, shape) ==
    LET node_id == NodeId(node_count)
        label1 == IF result # NoneV
                  THEN label \o <<"\nResult: ">> \o Str(result)
                  ELSE label
        dot1 == Append(dot, NodeStmt(node_id, label1, shape))
    IN  /\ node_count' = node_count + 1
        /\ dot' = IF execution_path # <<>>
                  THEN Append(dot1, EdgeStmt(execution_path[Len(execution_path)], node_id))
                  ELSE dot1
        /\ execution_path' = Append(execution_path, node_id)
        /\ UNCHANGED loop_stack

\* args_str of start_function: the keyword arguments first, then the positional ones
ArgsStr(args, kwargs) ==
    Join(<<", ">>,
         [i \in 1..Len(kwargs) |-> <<kwargs[i][1], "=">> \o Repr(kwargs[i][2])]
         \o [i \in 1..Len(args) |-> Repr(args[i])])

start_function(func_name, args, kwargs) ==
    /\ current_function' = StrV(<<func_name>>)
    /\ add_node(<<"Function: ", func_name, "(">> \o ArgsStr(args, kwargs) \o <<")">>,
                NoneV, "ellipse")

end_function(result) ==
    /\ add_node(<<"Return: ">> \o Repr(result), NoneV, "diamond")
    /\ current_function' = NoneV

start_loop(loop_info) ==
    /\ add_node(<<"Loop Start: ">> \o Str(loop_info), NoneV, "parallelogram")
    /\ UNCHANGED current_function

loop_iteration(iteration) ==
    /\ add_node(<<"Loop Iteration: ">> \o Str(iteration), NoneV, "parallelogram")
    /\ UNCHANGED current_function

end_loop ==
    /\ add_node(<<"Loop End">>, NoneV, "parallelogram")
    /\ UNCHANGED current_function

add_condition(condition, result) ==
    /\ add_node(<<"Condition: ">> \o Str(condition), result, "diamond")
    /\ UNCHANGED current_function

add_variable(var_name, value) ==
    /\ add_node(<<"Variable: ">> \o Str(var_name) \o <<" = ">> \o Repr(value),
                NoneV, "plaintext")
    /\ UNCHANGED current_function

add_print(content) ==
    /\ add_node(<<"Print: ">> \o Str(content), NoneV, "oval")
    /\ UNCHANGED current_function

add_if_branch(condition, branch) ==
    /\ add_node(<<"If Branch: ">> \o Str(condition) \o <<"\nTaken: ">> \o Str(branch),
                NoneV, "diamond")
    /\ UNCHANGED current_function

\* DebugFlowVisualizer.__init__
VizInit ==
    /\ dot = <<>>
    /\ node_count = 0
    /\ current_function = NoneV
    /\ execution_path = <<>>
    /\ loop_stack = <<>>

\* ------------------------------------------------------------------ the graph

IsNode(s) == s.stmt = "node"
IsEdge(s) == s.stmt = "edge"
Nodes == SelectSeq(dot, IsNode)
Edges == SelectSeq(dot, IsEdge)
Kind(n) == n.label[1]

\* ------------------------------------------------------------------ syntax trees (ast)

Name(id) == [type |-> "Name", id |-> id]
Constant(value) == [type |-> "Constant", value |-> value]
Call(func, args, keywords) ==
    [type |-> "Call", func |-> func, args |-> args, keywords |-> keywords]
keyword(arg, value) == [type |-> "keyword", arg |-> arg, value |-> value]
Tuple(elts) == [type |-> "Tuple", elts |-> elts]
List(elts) == [type |-> "List", elts |-> elts]
Attribute(value, attr) == [type |-> "Attribute", value |-> value, attr |-> attr]
Subscript(value, slice) == [type |-> "Subscript", value |-> value, slice |-> slice]
BinOp(left, op, right) == [type |-> "BinOp", left |-> left, op |-> op, right |-> right]
Compare(left, ops, comparators) ==
    [type |-> "Compare", left |-> left, ops |-> ops, comparators |-> comparators]
Expr(value) == [type |-> "Expr", value |-> value]
Assign(targets, value) == [type |-> "Assign", targets |-> targets, value |-> value]
If(test, body, orelse) == [type |-> "If", test |-> test, body |-> body, orelse |-> orelse]
For(target, iter, body, orelse) ==
    [type |-> "For", target |-> target, iter |-> iter, body |-> body, orelse |-> orelse]
FunctionDef(name, args, body, decorator_list) ==
    [type |-> "FunctionDef", name |-> name, args |-> args, body |-> body,
     decorator_list |-> decorator_list]
Return(value) == [type |-> "Return", value |-> value]
Raise(exc) == [type |-> "Raise", exc |-> exc]
Pass == [type |-> "Pass"]
Break == [type |-> "Break"]
Continue == [type |-> "Continue"]
Module(body) == [type |-> "Module", body |-> body]

\* a Python list returned by a visitor method in place of a node
PyList(elts) == [type |-> "list", elts |-> elts]

\* ast.unparse of an expression
RECURSIVE Unparse(_)
Unparse(e) ==
    LET Each(xs) == [i \in 1..Len(xs) |-> Unparse(xs[i])]
    IN
    CASE e.type = "Name" -> <<e.id>>
      [] e.type = "Constant" -> Repr(e.value)
      [] e.type = "Tuple" ->
            <<"(">> \o Join(<<", ">>, Each(e.elts))
                \o (IF Len(e.elts) = 1 THEN <<",">> ELSE <<>>) \o <<")">>
      [] e.type = "List" -> <<"[">> \o Join(<<", ">>, Each(e.elts)) \o <<"]">>
      [] e.type = "Attribute" -> Unparse(e.value) \o <<".", e.attr>>
      [] e.type = "Subscript" -> Unparse(e.value) \o <<"[">> \o Unparse(e.slice) \o <<"]">>
      [] e.type = "BinOp" -> Unparse(e.left) \o <<" ", e.op, " ">> \o Unparse(e.right)
      [] e.type = "Compare" ->
            Unparse(e.left) \o <<" ", e.ops[1], " ">> \o Unparse(e.comparators[1])
      [] e.type = "keyword" -> <<e.arg, "=">> \o Unparse(e.value)
      [] e.type = "Call" ->
            Unparse(e.func) \o <<"(">>
                \o Join(<<", ">>, Each(e.args) \o Each(e.keywords)) \o <<")">>

\* ------------------------------------------------------------------ DebugTransformer

RECURSIVE visit(_), generic_visit(_), visit_list(_)

\* NodeTransformer.generic_visit on a list field: a visitor's list result is spliced in
visit_list(xs) ==
    IF xs = <<>> THEN <<>>
    ELSE LET v == visit(Head(xs))
         IN  (IF v.type = "list" THEN v.elts ELSE <<v>>) \o visit_list(Tail(xs))

\* NodeTransformer.generic_visit: every child field is visited and replaced
generic_visit(node) ==
    CASE node.type = "Module" -> [node EXCEPT !.body = visit_list(@)]
      [] node.type = "FunctionDef" ->
            [node EXCEPT !.body = visit_list(@), !.decorator_list = visit_list(@)]
      [] node.type = "For" ->
            [node EXCEPT !.target = visit(@), !.iter = visit(@),
                         !.body = visit_list(@), !.orelse = visit_list(@)]
      [] node.type = "If" ->
            [node EXCEPT !.test = visit(@), !.body = visit_list(@),
                         !.orelse = visit_list(@)]
      [] node.type = "Assign" ->
            [node EXCEPT !.targets = visit_list(@), !.value = visit(@)]
      [] node.type = "Expr" -> [node EXCEPT !.value = visit(@)]
      [] node.type = "Return" -> [node EXCEPT !.value = visit(@)]
      [] node.type = "Raise" -> [node EXCEPT !.exc = visit(@)]
      [] node.type = "Call" ->
            [node EXCEPT !.func = visit(@), !.args = visit_list(@),
                         !.keywords = visit_list(@)]
      [] node.type = "keyword" -> [node EXCEPT !.value = visit(@)]
      [] node.type \in {"Tuple", "List"} -> [node EXCEPT !.elts = visit_list(@)]
      [] node.type = "Attribute" -> [node EXCEPT !.value = visit(@)]
      [] node.type = "Subscript" -> [node EXCEPT !.value = visit(@), !.slice = visit(@)]
      [] node.type = "BinOp" -> [node EXCEPT !.left = visit(@), !.right = visit(@)]
      [] node.type = "Compare" ->
            [node EXCEPT !.left = visit(@), !.comparators = visit_list(@)]
      [] OTHER -> node

visit_FunctionDef(node) ==
    generic_visit([node EXCEPT !.decorator_list = Append(@, Name("debug_function"))])

\* visit_For with the two reports at the head of the body in the other order
visit_For_iteration_first(node) ==
    LET loop_info == Unparse(node.target) \o <<" in ">> \o Unparse(node.iter)
        new_body ==
            << Expr(Call(Name("debug_loop_iteration"), <<node.target>>, <<>>)),
               Expr(Call(Name("debug_loop"), <<Constant(StrV(loop_info))>>, <<>>)) >>
            \o node.body
            \o << Expr(Call(Name("debug_loop_end"), <<>>, <<>>)) >>
    IN  generic_visit([node EXCEPT !.body = new_body])

\* visit_For with the debug_loop_end() call placed after the loop, not in its body
visit_For_loop_end_after(node) ==
    LET loop_info == Unparse(node.target) \o <<" in ">> \o Unparse(node.iter)
        new_body ==
            << Expr(Call(Name("debug_loop"), <<Constant(StrV(loop_info))>>, <<>>)),
               Expr(Call(Name("debug_loop_iteration"), <<node.target>>, <<>>)) >>
            \o node.body
    IN  PyList(<<generic_visit([node EXCEPT !.body = new_body]),
                 Expr(Call(Name("debug_loop_end"), <<>>, <<>>))>>)

\* visit_For without the debug_loop_end() call appended to the body
visit_For_no_loop_end(node) ==
    LET loop_info == Unparse(node.target) \o <<" in ">> \o Unparse(node.iter)
        new_body ==
            << Expr(Call(Name("debug_loop"), <<Constant(StrV(loop_info))>>, <<>>)),
               Expr(Call(Name("debug_loop_iteration"), <<node.target>>, <<>>)) >>
            \o node.body
    IN  generic_visit([node EXCEPT !.body = new_body])

visit_For(node) ==
    LET loop_info == Unparse(node.target) \o <<" in ">> \o Unparse(node.iter)
        new_body ==
            << Expr(Call(Name("debug_loop"), <<Constant(StrV(loop_info))>>, <<>>)),
               Expr(Call(Name("debug_loop_iteration"), <<node.target>>, <<>>)) >>
            \o node.body
            \o << Expr(Call(Name("debug_loop_end"), <<>>, <<>>)) >>
    IN  generic_visit([node EXCEPT !.body = new_body])

\* visit_If with the tags of the two branch reports exchanged
visit_If_tags_swapped(node) ==
    LET condition == Unparse(node.test)
        debug_condition_call ==
            Expr(Call(Name("debug_condition"), <<Constant(StrV(condition))>>, <<>>))
        true_branch_debug ==
            Expr(Call(Name("debug_if_branch"),
                      <<Constant(StrV(condition)), Constant(StrV(<<"False">>))>>, <<>>))
        false_branch_debug ==
            Expr(Call(Name("debug_if_branch"),
                      <<Constant(StrV(condition)), Constant(StrV(<<"True">>))>>, <<>>))
        new_body == <<debug_condition_call, true_branch_debug>> \o node.body
        new_orelse == IF node.orelse # <<>>
                      THEN <<false_branch_debug>> \o node.orelse
                      ELSE <<>>
    IN  generic_visit(If(node.test, new_body, new_orelse))

\* visit_If giving a conditional without a false branch one that holds the report
visit_If_always_false_report(node) ==
    LET condition == Unparse(node.test)
        debug_condition_call ==
            Expr(Call(Name("debug_condition"), <<Constant(StrV(condition))>>, <<>>))
        true_branch_debug ==
            Expr(Call(Name("debug_if_branch"),
                      <<Constant(StrV(condition)), Constant(StrV(<<"True">>))>>, <<>>))
        false_branch_debug ==
            Expr(Call(Name("debug_if_branch"),
                      <<Constant(StrV(condition)), Constant(StrV(<<"False">>))>>, <<>>))
        new_body == <<debug_condition_call, true_branch_debug>> \o node.body
        new_orelse == <<false_branch_debug>> \o node.orelse
    IN  generic_visit(If(node.test, new_body, new_orelse))

visit_If(node) ==
    LET condition == Unparse(node.test)
        debug_condition_call ==
            Expr(Call(Name("debug_condition"), <<Constant(StrV(condition))>>, <<>>))
        true_branch_debug ==
            Expr(Call(Name("debug_if_branch"),
                      <<Constant(StrV(condition)), Constant(StrV(<<"True">>))>>, <<>>))
        false_branch_debug ==
            Expr(Call(Name("debug_if_branch"),
                      <<Constant(StrV(condition)), Constant(StrV(<<"False">>))>>, <<>>))
        new_body == <<debug_condition_call, true_branch_debug>> \o node.body
        new_orelse == IF node.orelse # <<>>
                      THEN <<false_branch_debug>> \o node.orelse
                      ELSE <<>>
    IN  generic_visit(If(node.test, new_body, new_orelse))

\* the node is returned without generic_visit: its value is not visited
visit_Assign(node) ==
    IF node.targets[1].type = "Name"
    THEN LET var_name == node.targets[1].id
             new_node == Expr(Call(Name("debug_variable"),
                                   <<Constant(StrV(<<var_name>>)), node.targets[1]>>,
                                   <<>>))
         IN  PyList(<<node, new_node>>)
    ELSE node

\* the node is returned without generic_visit: its arguments are not visited
visit_Call(node) ==
    IF node.func.type = "Name" /\ node.func.id = "print"
    THEN Call(Name("debug_print"), node.args, node.keywords)
    ELSE node

\* NodeVisitor.visit: dispatch on the class name
visit(node) ==
    CASE node.type = "FunctionDef" -> visit_FunctionDef(node)
      [] node.type = "For" -> visit_For(node)
      [] node.type = "If" -> visit_If(node)
      [] node.type = "Assign" -> visit_Assign(node)
      [] node.type = "Call" -> visit_Call(node)
      [] OTHER -> generic_visit(node)

\* ------------------------------------------------------------------ the instrumented program's run

\* callables: the module's own names (runtime API, print) and the program's functions
BuiltinV(name) == [t |-> "builtin", name |-> name]
FunctionV(name, params, body, at) ==
    [t |-> "function", name |-> name, params |-> params, body |-> body, at |-> at]
\* debug_function(func): the wrapper closure; @wraps gives it func's name
WrapperV(func) == [t |-> "wrapper", name |-> func.name, func |-> func, at |-> func.at]
\* debug_condition(condition): the decorator closure
DecoratorV(condition) == [t |-> "decorator", condition |-> condition]
ExcV(name) == [t |-> "exception", name |-> name]
ErrV(name) == [t |-> "error", name |-> name]
ObjectV == [t |-> "object"]
IsErr(v) == v.t = "error"

ApiNames ==
    {"debug_function", "debug_loop", "debug_loop_iteration", "debug_loop_end",
     "debug_condition", "debug_variable", "debug_print", "debug_if_branch"}

\* globals() of the module when exec runs, with the builtins the programs use
ModuleGlobals ==
    [n \in ApiNames \cup {"print", "ValueError"} |->
        IF n = "ValueError" THEN [t |-> "class", name |-> n] ELSE BuiltinV(n)]

\* continuation frames; stack[1] is the innermost
BlockFrame(stmts) == [k |-> "block", stmts |-> stmts]
ForFrame(target, items, body) ==
    [k |-> "for", target |-> target, items |-> items, body |-> body]
CallFrame(name, locals) == [k |-> "call", name |-> name, locals |-> locals]
WrapperFrame(func, args, kwargs) ==
    [k |-> "wrapper", func |-> func, args |-> args, kwargs |-> kwargs]
OperandsFrame(node, todo, done) ==
    [k |-> "operands", node |-> node, todo |-> todo, done |-> done]
StmtFrame(node) == [k |-> "stmt", node |-> node]

\* what the interpreter does next
CtlNext == [m |-> "next"]
CtlEval(e) == [m |-> "eval", e |-> e]
CtlValue(v) == [m |-> "value", v |-> v]
CtlApply(callee, args, kwargs) ==
    [m |-> "apply", callee |-> callee, args |-> args, kwargs |-> kwargs]
CtlReturn(v) == [m |-> "return", v |-> v]
CtlRaise(exc) == [m |-> "raise", exc |-> exc]
CtlResult(v) == IF IsErr(v) THEN CtlRaise(ExcV(v.name)) ELSE CtlValue(v)

\* index of the innermost function activation in stk, 0 at module level
CallIdx(stk) ==
    IF \E i \in 1..Len(stk) : stk[i].k = "call"
    THEN CHOOSE i \in 1..Len(stk) :
            /\ stk[i].k = "call"
            /\ \A j \in 1..(i - 1) : stk[j].k # "call"
    ELSE 0

\* name lookup: locals of the running function, then globals
Lookup(stk, glob, id) ==
    LET c == CallIdx(stk)
    IN  IF c # 0 /\ id \in DOMAIN stk[c].locals THEN stk[c].locals[id]
        ELSE IF id \in DOMAIN glob THEN glob[id]
        ELSE ErrV("NameError")

SetName(env, id, v) ==
    [n \in DOMAIN env \cup {id} |-> IF n = id THEN v ELSE env[n]]

\* a store to a name: local in a function, global at module level
StoreName(st, id, v) ==
    LET c == CallIdx(st.stack)
    IN  IF c = 0 THEN [st EXCEPT !.globals = SetName(@, id, v)]
        ELSE [st EXCEPT !.stack[c].locals = SetName(@, id, v)]

\* a store to one target; attribute and subscript stores change no name
RECURSIVE StoreTarget(_, _, _), StoreElts(_, _, _)
StoreElts(st, elts, vs) ==
    IF elts = <<>> THEN st
    ELSE StoreElts(StoreTarget(st, Head(elts), Head(vs)), Tail(elts), Tail(vs))
StoreTarget(st, target, v) ==
    CASE target.type = "Name" -> StoreName(st, target.id, v)
      [] target.type \in {"Tuple", "List"} -> StoreElts(st, target.elts, v.xs)
      [] OTHER -> st

\* an assignment statement: the value goes to every target, left to right
RECURSIVE StoreAll(_, _, _)
StoreAll(st, targets, v) ==
    IF targets = <<>> THEN st
    ELSE StoreAll(StoreTarget(st, Head(targets), v), Tail(targets), v)

\* bool(v)
Truthy(v) ==
    CASE v.t = "bool" -> v.b
      [] v.t = "int" -> v.n # 0
      [] v.t = "None" -> FALSE
      [] v.t \in {"list", "tuple"} -> v.xs # <<>>
      [] v.t = "str" -> v.s # <<>>
      [] OTHER -> TRUE

RECURSIVE HasCall(_)
HasCall(e) ==
    CASE e.type = "Call" -> TRUE
      [] e.type \in {"Tuple", "List"} -> \E i \in 1..Len(e.elts) : HasCall(e.elts[i])
      [] e.type = "BinOp" -> HasCall(e.left) \/ HasCall(e.right)
      [] e.type = "Compare" -> HasCall(e.left) \/ HasCall(e.comparators[1])
      [] e.type \in {"Attribute", "keyword"} -> HasCall(e.value)
      [] e.type = "Subscript" -> HasCall(e.value) \/ HasCall(e.slice)
      [] OTHER -> FALSE

\* the operand expressions of a compound expression, in evaluation order
Operands(e) ==
    CASE e.type = "Call" ->
            <<e.func>> \o e.args \o [i \in 1..Len(e.keywords) |-> e.keywords[i].value]
      [] e.type \in {"Tuple", "List"} -> e.elts
      [] e.type = "BinOp" -> <<e.left, e.right>>
      [] e.type = "Compare" -> <<e.left, e.comparators[1]>>
      [] e.type = "Attribute" -> <<e.value>>
      [] e.type = "Subscript" -> <<e.value, e.slice>>
      [] OTHER -> <<>>

\* the value of a compound expression (not a call) from its operands' values
Combine(e, vs) ==
    IF \E i \in 1..Len(vs) : IsErr(vs[i])
    THEN vs[CHOOSE i \in 1..Len(vs) : IsErr(vs[i]) /\ \A j \in 1..(i - 1) : ~IsErr(vs[j])]
    ELSE
    CASE e.type = "Tuple" -> TupleV(vs)
      [] e.type = "List" -> ListV(vs)
      [] e.type = "BinOp" ->
            IF vs[1].t = "int" /\ vs[2].t = "int"
            THEN IF e.op = "-" THEN IntV(vs[1].n - vs[2].n) ELSE IntV(vs[1].n + vs[2].n)
            ELSE ErrV("TypeError")
      [] e.type = "Compare" ->
            IF vs[1].t = "int" /\ vs[2].t = "int"
            THEN CASE e.ops[1] = ">" -> BoolV(vs[1].n > vs[2].n)
                   [] e.ops[1] = "<" -> BoolV(vs[1].n < vs[2].n)
                   [] OTHER -> BoolV(vs[1].n = vs[2].n)
            ELSE ErrV("TypeError")
      [] OTHER -> ObjectV

\* the value of an expression that makes no call
RECURSIVE EvalPure(_, _, _)
EvalPure(stk, glob, e) ==
    CASE e.type = "Constant" -> e.value
      [] e.type = "Name" -> Lookup(stk, glob, e.id)
      [] OTHER ->
            LET ops == Operands(e)
            IN  Combine(e, [i \in 1..Len(ops) |-> EvalPure(stk, glob, ops[i])])

\* positional and keyword arguments of a call from its operands' values
CallArgs(e, vs) == SubSeq(vs, 2, 1 + Len(e.args))
CallKwargs(e, vs) ==
    [i \in 1..Len(e.keywords) |-> <<e.keywords[i].arg, vs[1 + Len(e.args) + i]>>]

\* a def statement's decorators applied, innermost (last) first
RECURSIVE Decorate(_, _, _, _)
Decorate(stk, glob, decorator_list, f) ==
    IF decorator_list = <<>> THEN f
    ELSE LET d == EvalPure(stk, glob, decorator_list[Len(decorator_list)])
             g == IF d = BuiltinV("debug_function") THEN WrapperV(f) ELSE f
         IN  Decorate(stk, glob, SubSeq(decorator_list, 1, Len(decorator_list) - 1), g)

\* the parameters bound to the positional arguments, then to the keyword arguments
BindParams(params, args, kwargs) ==
    [n \in {params[i] : i \in 1..Len(params)} |->
        LET p == CHOOSE i \in 1..Len(params) : params[i] = n
        IN  IF p <= Len(args) THEN args[p]
            ELSE kwargs[CHOOSE j \in 1..Len(kwargs) : kwargs[j][1] = n][2]]

\* the call binds every parameter exactly once
ArgsFit(params, args, kwargs) ==
    /\ Len(args) + Len(kwargs) = Len(params)
    /\ \A i \in 1..Len(params) :
            i > Len(args) => \E j \in 1..Len(kwargs) : kwargs[j][1] = params[i]

\* ------------------------------------------------------------------ actions: statements

Running == status = "running"
Top == stack[1]
AtStmt == Running /\ ctl.m = "next" /\ stack # <<>> /\ Top.k = "block" /\ Top.stmts # <<>>
\* the stack with the statement being executed removed from its block
Advanced == <<[Top EXCEPT !.stmts = Tail(@)]>> \o Tail(stack)

\* the expression a statement evaluates first
StmtExpr(s) ==
    CASE s.type \in {"Expr", "Assign", "Return"} -> s.value
      [] s.type = "If" -> s.test
      [] s.type = "For" -> s.iter
      [] s.type = "Raise" -> s.exc

\* a file whose text ast.parse rejects
Unparsable == [type |-> "SyntaxError"]

\* instrument_file with the parse error swallowed: it returns as after a finished run
instrument_file_parse_error_swallowed ==
    /\ status = "init"
    /\ IF prog = Unparsable
       THEN status' = "done" /\ UNCHANGED <<stack, ctl>>
       ELSE /\ status' = "running"
            /\ stack' = <<BlockFrame(visit(prog).body)>>
            /\ ctl' = CtlNext
    /\ UNCHANGED <<vizVars, envVars, globals, out, reports, returned>>

\* instrument_file: parse, transform, unparse, exec; when ast.parse raises, the
\* SyntaxError leaves instrument_file and nothing after the parse is reached
instrument_file ==
    /\ status = "init"
    /\ IF prog = Unparsable
       THEN /\ status' = "raised"
            /\ ctl' = CtlRaise(ExcV("SyntaxError"))
            /\ UNCHANGED stack
       ELSE /\ status' = "running"
            /\ stack' = <<BlockFrame(visit(prog).body)>>
            /\ ctl' = CtlNext
    /\ UNCHANGED <<vizVars, envVars, globals, out, reports, returned>>

\* a statement begins by evaluating its expression
ExecStmt ==
    /\ AtStmt
    /\ Head(Top.stmts).type \in {"Expr", "Assign", "Return", "If", "For", "Raise"}
    /\ stack' = <<StmtFrame(Head(Top.stmts))>> \o Advanced
    /\ ctl' = CtlEval(StmtExpr(Head(Top.stmts)))
    /\ UNCHANGED <<vizVars, envVars, status, globals, out, reports, returned>>

ExecPass ==
    /\ AtStmt
    /\ Head(Top.stmts).type = "Pass"
    /\ stack' = Advanced
    /\ UNCHANGED <<vizVars, envVars, status, ctl, globals, out, reports, returned>>

\* break and continue: the rest of the iteration is left
ExecBreak ==
    /\ AtStmt
    /\ Head(Top.stmts).type = "Break"
    /\ ctl' = [m |-> "break"]
    /\ UNCHANGED <<vizVars, envVars, status, stack, globals, out, reports, returned>>

ExecContinue ==
    /\ AtStmt
    /\ Head(Top.stmts).type = "Continue"
    /\ ctl' = [m |-> "continue"]
    /\ UNCHANGED <<vizVars, envVars, status, stack, globals, out, reports, returned>>

\* the blocks inside the innermost loop are left
LeaveBlock ==
    /\ Running /\ ctl.m \in {"break", "continue"} /\ stack # <<>>
    /\ Top.k # "for"
    /\ stack' = Tail(stack)
    /\ UNCHANGED <<vizVars, envVars, status, ctl, globals, out, reports, returned>>

\* break ends the loop, continue goes on with the next item
ForBreak ==
    /\ Running /\ ctl.m = "break" /\ stack # <<>>
    /\ Top.k = "for"
    /\ stack' = Tail(stack)
    /\ ctl' = CtlNext
    /\ UNCHANGED <<vizVars, envVars, status, globals, out, reports, returned>>

ForContinue ==
    /\ Running /\ ctl.m = "continue" /\ stack # <<>>
    /\ Top.k = "for"
    /\ ctl' = CtlNext
    /\ UNCHANGED <<vizVars, envVars, status, stack, globals, out, reports, returned>>

\* def: the function object, decorated, is bound to its name
ExecFunctionDef ==
    /\ AtStmt
    /\ Head(Top.stmts).type = "FunctionDef"
    /\ LET s == Head(Top.stmts)
           f == Decorate(stack, globals, s.decorator_list,
                         FunctionV(s.name, s.args, s.body, heap))
           st == StoreName([stack |-> Advanced, globals |-> globals], s.name, f)
       IN  stack' = st.stack /\ globals' = st.globals
    /\ UNCHANGED <<vizVars, envVars, status, ctl, out, reports, returned>>

BlockEnd ==
    /\ Running /\ ctl.m = "next" /\ stack # <<>>
    /\ Top.k = "block" /\ Top.stmts = <<>>
    /\ stack' = Tail(stack)
    /\ UNCHANGED <<vizVars, envVars, status, ctl, globals, out, reports, returned>>

\* the module's last statement is done: exec returns
ModuleEnd ==
    /\ Running /\ ctl.m = "next" /\ stack = <<>>
    /\ status' = "done"
    /\ UNCHANGED <<vizVars, envVars, stack, ctl, globals, out, reports, returned>>

\* a function body runs off its end: return None
FunctionEnd ==
    /\ Running /\ ctl.m = "next" /\ stack # <<>>
    /\ Top.k = "call"
    /\ ctl' = CtlReturn(NoneV)
    /\ UNCHANGED <<vizVars, envVars, status, stack, globals, out, reports, returned>>

\* for: the next item is bound to the target and the body runs
ForIterate ==
    /\ Running /\ ctl.m = "next" /\ stack # <<>>
    /\ Top.k = "for" /\ Top.items # <<>>
    /\ LET st == StoreTarget(
                    [stack |-> <<[Top EXCEPT !.items = Tail(@)]>> \o Tail(stack),
                     globals |-> globals],
                    Top.target, Head(Top.items))
       IN  /\ stack' = <<BlockFrame(Top.body)>> \o st.stack
           /\ globals' = st.globals
    /\ UNCHANGED <<vizVars, envVars, status, ctl, out, reports, returned>>

ForExhausted ==
    /\ Running /\ ctl.m = "next" /\ stack # <<>>
    /\ Top.k = "for" /\ Top.items = <<>>
    /\ stack' = Tail(stack)
    /\ UNCHANGED <<vizVars, envVars, status, ctl, globals, out, reports, returned>>

\* a statement's expression has its value
AtStmtValue(type) ==
    /\ Running /\ ctl.m = "value" /\ stack # <<>>
    /\ Top.k = "stmt" /\ Top.node.type = type

ExprDone ==
    /\ AtStmtValue("Expr")
    /\ stack' = Tail(stack)
    /\ ctl' = CtlNext
    /\ UNCHANGED <<vizVars, envVars, status, globals, out, reports, returned>>

AssignDone ==
    /\ AtStmtValue("Assign")
    /\ LET st == StoreAll([stack |-> Tail(stack), globals |-> globals],
                          Top.node.targets, ctl.v)
       IN  stack' = st.stack /\ globals' = st.globals
    /\ ctl' = CtlNext
    /\ UNCHANGED <<vizVars, envVars, status, out, reports, returned>>

\* if: the test decides which arm runs
IfDone ==
    /\ AtStmtValue("If")
    /\ stack' = <<BlockFrame(IF Truthy(ctl.v) THEN Top.node.body ELSE Top.node.orelse)>>
                \o Tail(stack)
    /\ ctl' = CtlNext
    /\ UNCHANGED <<vizVars, envVars, status, globals, out, reports, returned>>

\* for: the iterable's items are drawn in order
ForDone ==
    /\ AtStmtValue("For")
    /\ ctl.v.t \in {"list", "tuple"}
    /\ stack' = <<ForFrame(Top.node.target, ctl.v.xs, Top.node.body)>> \o Tail(stack)
    /\ ctl' = CtlNext
    /\ UNCHANGED <<vizVars, envVars, status, globals, out, reports, returned>>

ReturnDone ==
    /\ AtStmtValue("Return")
    /\ stack' = Tail(stack)
    /\ ctl' = CtlReturn(ctl.v)
    /\ UNCHANGED <<vizVars, envVars, status, globals, out, reports, returned>>

\* raise: an exception class is instantiated
RaiseDone ==
    /\ AtStmtValue("Raise")
    /\ stack' = Tail(stack)
    /\ ctl' = CtlRaise(IF ctl.v.t = "class" THEN ExcV(ctl.v.name) ELSE ctl.v)
    /\ UNCHANGED <<vizVars, envVars, status, globals, out, reports, returned>>

\* return: the innermost function activation and everything in it is left
DoReturn ==
    /\ Running /\ ctl.m = "return"
    /\ CallIdx(stack) # 0
    /\ stack' = SubSeq(stack, CallIdx(stack) + 1, Len(stack))
    /\ ctl' = CtlValue(ctl.v)
    \* the caller gets the value now, unless the caller is debug_function's wrapper
    /\ returned' = IF stack' # <<>> /\ stack'[1].k = "wrapper"
                   THEN returned
                   ELSE Append(returned, ctl.v)
    /\ UNCHANGED <<vizVars, envVars, status, globals, out, reports>>

\* ------------------------------------------------------------------ actions: expressions

EvalAtom ==
    /\ Running /\ ctl.m = "eval"
    /\ ~HasCall(ctl.e)
    /\ ctl' = CtlResult(EvalPure(stack, globals, ctl.e))
    /\ UNCHANGED <<vizVars, envVars, status, stack, globals, out, reports, returned>>

\* an expression that makes a call: its operands are evaluated left to right
EvalOperands ==
    /\ Running /\ ctl.m = "eval"
    /\ HasCall(ctl.e)
    /\ stack' = <<OperandsFrame(ctl.e, Tail(Operands(ctl.e)), <<>>)>> \o stack
    /\ ctl' = CtlEval(Head(Operands(ctl.e)))
    /\ UNCHANGED <<vizVars, envVars, status, globals, out, reports, returned>>

AtOperand == Running /\ ctl.m = "value" /\ stack # <<>> /\ Top.k = "operands"

OperandNext ==
    /\ AtOperand
    /\ Top.todo # <<>>
    /\ stack' = <<[Top EXCEPT !.todo = Tail(@), !.done = Append(@, ctl.v)]>>
                \o Tail(stack)
    /\ ctl' = CtlEval(Head(Top.todo))
    /\ UNCHANGED <<vizVars, envVars, status, globals, out, reports, returned>>

\* all operands of a call are evaluated: the callee is applied
OperandsCall ==
    /\ AtOperand
    /\ Top.todo = <<>>
    /\ Top.node.type = "Call"
    /\ LET vs == Append(Top.done, ctl.v)
       IN  ctl' = CtlApply(vs[1], CallArgs(Top.node, vs), CallKwargs(Top.node, vs))
    /\ stack' = Tail(stack)
    /\ UNCHANGED <<vizVars, envVars, status, globals, out, reports, returned>>

OperandsCombine ==
    /\ AtOperand
    /\ Top.todo = <<>>
    /\ Top.node.type # "Call"
    /\ ctl' = CtlResult(Combine(Top.node, Append(Top.done, ctl.v)))
    /\ stack' = Tail(stack)
    /\ UNCHANGED <<vizVars, envVars, status, globals, out, reports, returned>>

\* ------------------------------------------------------------------ actions: calls

AtApply(name) == Running /\ ctl.m = "apply" /\ ctl.callee = BuiltinV(name)

\* the built-in print
print ==
    /\ AtApply("print")
    /\ out' = Append(out, [args |-> ctl.args, kwargs |-> ctl.kwargs])
    /\ ctl' = CtlValue(NoneV)
    /\ UNCHANGED <<vizVars, envVars, status, stack, globals, reports, returned>>

debug_loop ==
    /\ AtApply("debug_loop")
    /\ start_loop(ctl.args[1])
    /\ ctl' = CtlValue(NoneV)
    /\ reports' = reports + 1
    /\ UNCHANGED <<envVars, status, stack, globals, out, returned>>

debug_loop_iteration ==
    /\ AtApply("debug_loop_iteration")
    /\ loop_iteration(ctl.args[1])
    /\ ctl' = CtlValue(NoneV)
    /\ reports' = reports + 1
    /\ UNCHANGED <<envVars, status, stack, globals, out, returned>>

debug_loop_end ==
    /\ AtApply("debug_loop_end")
    /\ end_loop
    /\ ctl' = CtlValue(NoneV)
    /\ reports' = reports + 1
    /\ UNCHANGED <<envVars, status, stack, globals, out, returned>>

\* debug_condition(condition) builds and returns the decorator; nothing calls it here
debug_condition ==
    /\ AtApply("debug_condition")
    /\ ctl' = CtlValue(DecoratorV(ctl.args[1]))
    /\ reports' = reports + 1
    /\ UNCHANGED <<vizVars, envVars, status, stack, globals, out, returned>>

debug_variable ==
    /\ AtApply("debug_variable")
    /\ add_variable(ctl.args[1], ctl.args[2])
    /\ ctl' = CtlValue(NoneV)
    /\ reports' = reports + 1
    /\ UNCHANGED <<envVars, status, stack, globals, out, returned>>

\* debug_print: the report, then the real print with the same arguments
debug_print ==
    /\ AtApply("debug_print")
    /\ LET content == Join(<<" ">>, [i \in 1..Len(ctl.args) |-> Repr(ctl.args[i])])
       IN  add_print(StrV(content))
    /\ out' = Append(out, [args |-> ctl.args, kwargs |-> ctl.kwargs])
    /\ ctl' = CtlValue(NoneV)
    /\ reports' = reports + 1
    /\ UNCHANGED <<envVars, status, stack, globals, returned>>

debug_if_branch ==
    /\ AtApply("debug_if_branch")
    /\ add_if_branch(ctl.args[1], ctl.args[2])
    /\ ctl' = CtlValue(NoneV)
    /\ reports' = reports + 1
    /\ UNCHANGED <<envVars, status, stack, globals, out, returned>>

\* debug_function's wrapper is called: the entry report, then func(*args, **kwargs)
wrapper_call ==
    /\ Running /\ ctl.m = "apply" /\ ctl.callee.t = "wrapper"
    /\ start_function(ctl.callee.func.name, ctl.args, ctl.kwargs)
    /\ stack' = <<WrapperFrame(ctl.callee.func, ctl.args, ctl.kwargs)>> \o stack
    /\ ctl' = CtlApply(ctl.callee.func, ctl.args, ctl.kwargs)
    /\ reports' = reports + 1
    /\ UNCHANGED <<envVars, status, globals, out, returned>>

\* the wrapper making the exit report and returning None in place of result
wrapper_return_drops_result ==
    /\ Running /\ ctl.m = "value" /\ stack # <<>> /\ Top.k = "wrapper"
    /\ end_function(ctl.v)
    /\ stack' = Tail(stack)
    /\ ctl' = CtlValue(NoneV)
    /\ returned' = Append(returned, NoneV)
    /\ reports' = reports + 1
    /\ UNCHANGED <<envVars, status, globals, out>>

\* the wrapper returning result without the exit report
wrapper_return_no_report ==
    /\ Running /\ ctl.m = "value" /\ stack # <<>> /\ Top.k = "wrapper"
    /\ stack' = Tail(stack)
    /\ ctl' = CtlValue(ctl.v)
    /\ returned' = Append(returned, ctl.v)
    /\ reports' = reports + 1
    /\ UNCHANGED <<vizVars, envVars, status, globals, out>>

\* func returned into the wrapper: the exit report, then return result
wrapper_return ==
    /\ Running /\ ctl.m = "value" /\ stack # <<>> /\ Top.k = "wrapper"
    /\ end_function(ctl.v)
    /\ stack' = Tail(stack)
    /\ ctl' = CtlValue(ctl.v)
    /\ returned' = Append(returned, ctl.v)
    /\ reports' = reports + 1
    /\ UNCHANGED <<envVars, status, globals, out>>

\* the wrapper catching what func raises: it reports an exit and returns None
wrapper_raise_swallowed ==
    /\ Running /\ ctl.m = "raise" /\ stack # <<>> /\ Top.k = "wrapper"
    /\ end_function(NoneV)
    /\ stack' = Tail(stack)
    /\ ctl' = CtlValue(NoneV)
    /\ UNCHANGED <<envVars, status, globals, out, reports, returned>>

\* func raised inside the wrapper: the wrapper has no handler, the exception leaves it
wrapper_raise ==
    /\ Running /\ ctl.m = "raise" /\ stack # <<>> /\ Top.k = "wrapper"
    /\ stack' = Tail(stack)
    /\ UNCHANGED <<vizVars, envVars, status, ctl, globals, out, reports, returned>>

\* a function of the program is called: its body runs in a new activation
CallFunction ==
    /\ Running /\ ctl.m = "apply" /\ ctl.callee.t = "function"
    /\ ArgsFit(ctl.callee.params, ctl.args, ctl.kwargs)
    /\ stack' = <<BlockFrame(ctl.callee.body),
                  CallFrame(ctl.callee.name,
                            BindParams(ctl.callee.params, ctl.args, ctl.kwargs))>>
                \o stack
    /\ ctl' = CtlNext
    /\ UNCHANGED <<vizVars, envVars, status, globals, out, reports, returned>>

\* an exception leaves a frame of the program
Unwind ==
    /\ Running /\ ctl.m = "raise" /\ stack # <<>> /\ Top.k # "wrapper"
    /\ stack' = Tail(stack)
    /\ UNCHANGED <<vizVars, envVars, status, ctl, globals, out, reports, returned>>

\* the exception leaves exec and instrument_file
Uncaught ==
    /\ Running /\ ctl.m = "raise" /\ stack = <<>>
    /\ status' = "raised"
    /\ UNCHANGED <<vizVars, envVars, stack, ctl, globals, out, reports, returned>>

\* __main__ after instrument_file has returned: visualizer.render('debug_flow')
\* hands the graph to the renderer; an exception that left instrument_file ends the
\* process before this line
render_after_failure ==
    /\ status \in {"done", "raised"}
    /\ rendered' = Append(rendered, dot)
    /\ status' = "rendered"
    /\ UNCHANGED <<vizVars, prog, heap, first, threads,
                   stack, ctl, globals, out, reports, returned>>

render ==
    /\ status = "done"
    /\ rendered' = Append(rendered, dot)
    /\ status' = "rendered"
    /\ UNCHANGED <<vizVars, prog, heap, first, threads,
                   stack, ctl, globals, out, reports, returned>>

\* ------------------------------------------------------------------ the source programs

\* the longest sequence a for-loop of a program iterates over
MaxIter == 3
\* the deepest recursion of a program
MaxDepth == 2

Num(n) == Constant(IntV(n))
Text(s) == Constant(StrV(<<s>>))
PrintOf(args) == Call(Name("print"), args, <<>>)
CallOf(f, args) == Expr(Call(Name(f), args, <<>>))

\* x = 1
AssignName == Assign(<<Name("x")>>, Num(1))
\* a, b = 1, 2
AssignTuple == Assign(<<Tuple(<<Name("a"), Name("b")>>)>>, Tuple(<<Num(1), Num(2)>>))
\* a = b = 1
AssignMulti == Assign(<<Name("a"), Name("b")>>, Num(1))
\* debug_loop.f = 1
AssignAttribute == Assign(<<Attribute(Name("debug_loop"), "f")>>, Num(1))
\* debug_loop.__dict__['f'] = a = 1
AssignSubscript ==
    Assign(<<Subscript(Attribute(Name("debug_loop"), "__dict__"), Text("f")), Name("a")>>,
           Num(1))
\* print(1)
PrintStmt == Expr(PrintOf(<<Num(1)>>))
\* print(1, 2, sep='-')
PrintKeyword == Expr(Call(Name("print"), <<Num(1), Num(2)>>, <<keyword("sep", Text("-"))>>))
\* x = print(1)
AssignPrint == Assign(<<Name("x")>>, PrintOf(<<Num(1)>>))
\* print(print(1))
PrintPrint == Expr(PrintOf(<<PrintOf(<<Num(1)>>)>>))
\* g(print(2))
CallPrint == CallOf("g", <<PrintOf(<<Num(2)>>)>>)
\* g(1)
CallG == CallOf("g", <<Num(1)>>)
\* y = h(1) + 1
AssignCall == Assign(<<Name("y")>>, BinOp(Call(Name("h"), <<Num(1)>>, <<>>), "+", Num(1)))
\* r(1)
CallR == CallOf("r", <<Num(1)>>)
\* raise ValueError
RaiseStmt == Raise(Name("ValueError"))
\* y = h
AssignFunction == Assign(<<Name("y")>>, Name("h"))

Simple ==
    {AssignName, AssignTuple, AssignMulti, AssignAttribute, AssignSubscript,
     PrintStmt, PrintKeyword, AssignPrint, PrintPrint, CallPrint, CallG, AssignCall,
     AssignFunction, CallR, RaiseStmt, Pass}

\* [1, ..., k]
ListTo(k) == List([i \in 1..k |-> Num(i)])

\* the tests of the conditionals: True, False, x > 0 (x is bound to 1)
Tests == {Constant(BoolV(TRUE)), Constant(BoolV(FALSE)), Compare(Name("x"), <<">">>, <<Num(0)>>)}

\* tests that call the instrumented h: h(1) > 0 is true, h(1) > 5 is false
CallTests == {Compare(Call(Name("h"), <<Num(1)>>, <<>>), <<">">>, <<Num(c)>>) : c \in {0, 5}}

\* for i in [1, ..., k]: s
Loops(S) == {For(Name("i"), ListTo(k), <<s>>, <<>>) : k \in 0..MaxIter, s \in S}

\* if t: s   and   if t: s else: e
Conditionals(S) ==
    {If(t, <<s>>, e) : t \in Tests, s \in S, e \in {<<>>, <<AssignName>>, <<PrintStmt>>}}

\* statements nested once, and a few nested twice
Nested1 == Simple \cup Loops(Simple) \cup Conditionals(Simple)
Nested2 ==
    Loops(Conditionals({AssignName, PrintStmt, RaiseStmt}))
    \cup Conditionals(Loops({AssignName, AssignPrint}))
    \cup Loops({For(Name("j"), ListTo(2), <<AssignName>>, <<>>)})
    \cup {If(Constant(BoolV(FALSE)), <<Pass>>,
             <<If(t, <<AssignName>>, <<PrintStmt>>)>>) : t \in Tests}
    \cup {If(t, <<AssignName>>, e) : t \in CallTests, e \in {<<>>, <<PrintStmt>>}}

\* for i in [1, ..., k]: (if i > 1: e); print(1)      the iterations after the first are left by e
ExitLoop(k, e) ==
    For(Name("i"), ListTo(k),
        <<If(Compare(Name("i"), <<">">>, <<Num(1)>>), <<e>>, <<>>), PrintStmt>>, <<>>)
\* loops left by break and continue, and by raise
ExitLoops ==
    {ExitLoop(k, e) : k \in 0..MaxIter, e \in {Break, Continue, RaiseStmt}}
    \cup Loops({Break, Continue})

\* x = 1
\* def g(n): pass
\* def h(n): return n
\* def r(n): print(1); raise ValueError
Prelude ==
    <<AssignName,
      FunctionDef("g", <<"n">>, <<Pass>>, <<>>),
      FunctionDef("h", <<"n">>, <<Return(Name("n"))>>, <<>>),
      FunctionDef("r", <<"n">>, <<PrintStmt, RaiseStmt>>, <<>>)>>

\* the statement at module level
ModulePrograms == {Module(Prelude \o <<s>>) : s \in Nested1 \cup Nested2 \cup ExitLoops}

\* def f(): s [; return 5]      f()        the statement in a function
FunctionPrograms ==
    {Module(Prelude \o <<FunctionDef("f", <<>>, <<s>> \o r, <<>>), CallOf("f", <<>>)>>) :
        s \in Nested1 \cup Nested2, r \in {<<>>, <<Return(Num(5))>>}}
    \cup {Module(Prelude \o <<FunctionDef("f", <<>>, <<s>>, <<>>), CallOf("f", <<>>)>>) :
            s \in ExitLoops \cup {ExitLoop(k, Return(Num(5))) : k \in 0..MaxIter}}

\* def f(n): pre; if n > 0: f(n - 1); post       f(d): d nested calls of f
RecursivePrograms ==
    {Module(<<FunctionDef("f", <<"n">>,
                pre \o <<If(Compare(Name("n"), <<">">>, <<Num(0)>>),
                            <<CallOf("f", <<BinOp(Name("n"), "-", Num(1))>>)>>, <<>>)>>
                    \o post,
                <<>>),
              Expr(Call(Name("f"), <<>>, <<keyword("n", Num(d))>>))>>) :
        d \in 0..MaxDepth,
        pre \in {<<>>, <<Assign(<<Name("y")>>, Name("n"))>>},
        post \in {<<>>, <<PrintStmt>>, <<Return(Name("n"))>>, <<RaiseStmt>>}}

Programs == ModulePrograms \cup FunctionPrograms \cup RecursivePrograms \cup {Unparsable}

\* the addresses at which a process may allocate the program's objects
Addrs == {"0x7f01", "0x7f02"}

\* no first session: the run is not one of a compared pair
NoSession == [mode |-> "none"]
\* no threads besides the one that runs the program
NoThreads == <<>>

\* ------------------------------------------------------------------ specifications

Init ==
    /\ VizInit
    /\ prog \in Programs
    /\ status = "init"
    /\ stack = <<>>
    /\ ctl = CtlNext
    /\ globals = ModuleGlobals
    /\ out = <<>>
    /\ reports = 0
    /\ returned = <<>>
    /\ rendered = <<>>
    /\ heap \in Addrs
    /\ first = NoSession
    /\ threads = NoThreads

\* a step of exec(modified_code, globals())
Exec ==
    \/ ExecStmt \/ ExecPass \/ ExecFunctionDef
    \/ ExecBreak \/ ExecContinue \/ LeaveBlock \/ ForBreak \/ ForContinue
    \/ BlockEnd \/ ModuleEnd \/ FunctionEnd
    \/ ForIterate \/ ForExhausted
    \/ ExprDone \/ AssignDone \/ IfDone \/ ForDone \/ ReturnDone \/ RaiseDone
    \/ DoReturn
    \/ EvalAtom \/ EvalOperands \/ OperandNext \/ OperandsCall \/ OperandsCombine
    \/ print
    \/ debug_loop \/ debug_loop_iteration \/ debug_loop_end
    \/ debug_condition \/ debug_variable \/ debug_print \/ debug_if_branch
    \/ wrapper_call \/ wrapper_return \/ wrapper_raise
    \/ CallFunction
    \/ Unwind \/ Uncaught

\* the command-line run: instrument_file, then render
Next ==
    \/ instrument_file
    \/ Exec
    \/ render

Spec == Init /\ [][Next]_vars

\* ------------------------------------------------------------------ the runtime API called directly

\* a session on which a client calls the visualizer's methods in any order
InitAPI ==
    /\ VizInit
    /\ prog = Module(<<>>)
    /\ status = "api"
    /\ stack = <<>>
    /\ ctl = CtlNext
    /\ globals = ModuleGlobals
    /\ out = <<>>
    /\ reports = 0
    /\ returned = <<>>
    /\ rendered = <<>>
    /\ heap = "0x7f01"       \* no object of a program is allocated
    /\ first = NoSession
    /\ threads = NoThreads

ApiOpen == status = "api" /\ node_count < MaxNodes

call_start_function ==
    \E f \in {"f", "g"}, a \in {<<>>, <<IntV(1), StrV(<<"s">>)>>} :
        /\ ApiOpen
        /\ start_function(f, a, IF a = <<>> THEN <<<<"k", IntV(2)>>>> ELSE <<>>)
        /\ UNCHANGED runVars

call_end_function ==
    \E r \in {NoneV, IntV(1)} :
        /\ ApiOpen
        /\ end_function(r)
        /\ UNCHANGED runVars

call_start_loop ==
    /\ ApiOpen
    /\ start_loop(StrV(<<"i", " in ", "xs">>))
    /\ UNCHANGED runVars

call_loop_iteration ==
    /\ ApiOpen
    /\ loop_iteration(IntV(1))
    /\ UNCHANGED runVars

call_end_loop ==
    /\ ApiOpen
    /\ end_loop
    /\ UNCHANGED runVars

call_add_condition ==
    \E r \in {NoneV, BoolV(TRUE)} :
        /\ ApiOpen
        /\ add_condition(StrV(<<"x", " > ", "0">>), r)
        /\ UNCHANGED runVars

call_add_variable ==
    /\ ApiOpen
    /\ add_variable(StrV(<<"x">>), IntV(1))
    /\ UNCHANGED runVars

call_add_print ==
    /\ ApiOpen
    /\ add_print(StrV(<<"1">>))
    /\ UNCHANGED runVars

call_add_if_branch ==
    \E b \in {"True", "False"} :
        /\ ApiOpen
        /\ add_if_branch(StrV(<<"x", " > ", "0">>), StrV(<<b>>))
        /\ UNCHANGED runVars

NextAPI ==
    \/ call_start_function \/ call_end_function
    \/ call_start_loop \/ call_loop_iteration \/ call_end_loop
    \/ call_add_condition \/ call_add_variable \/ call_add_print \/ call_add_if_branch

SpecAPI == InitAPI /\ [][NextAPI]_vars

\* ------------------------------------------------------------------ claims

\* C1: after any sequence of runtime API calls, n >= 1 created nodes have exactly
\* n-1 edges and edge k goes from the k-th created node to the (k+1)-th: one simple
\* path in creation order, with no branching, no self-loop and no duplicate edge.
C1_SimplePath ==
    LET n == Len(Nodes)
    IN  n >= 1 =>
            /\ Len(Edges) = n - 1
            /\ \A k \in 1..(n - 1) :
                    /\ Edges[k].tail = Nodes[k].name
                    /\ Edges[k].head = Nodes[k + 1].name
                    /\ Edges[k].tail # Edges[k].head
            /\ \A j, k \in 1..(n - 1) : j # k => Edges[j] # Edges[k]
            /\ \A j, k \in 1..n : j # k => Nodes[j].name # Nodes[k].name

\* three nodes created by three different methods, joined by two edges
C1_Witness ==
    /\ Len(Nodes) = 3 /\ Len(Edges) = 2
    /\ Kind(Nodes[1]) = "Function: "
    /\ Kind(Nodes[2]) = "Variable: "
    /\ Kind(Nodes[3]) = "Return: "

\* C2: within a session every identifier add_node returns has a number strictly
\* greater than every identifier returned before it (none is reused), and the
\* counter stays ahead of all of them (it never decreases or resets).
C2_IdsStrictlyIncrease ==
    /\ \A i, j \in 1..Len(execution_path) :
            i < j => IdNum(execution_path[i]) < IdNum(execution_path[j])
    /\ \A i \in 1..Len(execution_path) : IdNum(execution_path[i]) < node_count

\* three identifiers were returned, the last after an end_function
C2_Witness ==
    /\ Len(execution_path) = 3
    /\ execution_path[3] = NodeId(2)
    /\ Kind(Nodes[2]) = "Return: "
    /\ current_function # NoneV

\* ------------------------------------------------------------------ the trace of a run

\* the kinds of the nodes, in creation order
Kinds == [i \in 1..Len(Nodes) |-> Kind(Nodes[i])]
\* the nodes of seq whose kind is k
OfKind(seq, k) == LET P(n) == Kind(n) = k IN SelectSeq(seq, P)
NumKind(k) == Len(OfKind(Nodes, k))
\* the instrumented calls that have reported their entry and not returned, innermost first
IsWrapperFrame(f) == f.k = "wrapper"
ActiveCalls == SelectSeq(stack, IsWrapperFrame)
Finished == status = "done"

\* C3: for programs of supported constructs, at the end of the run the number of
\* trace nodes equals the number of runtime API reports that were executed.
C3_NodesEqualReports == Finished => Len(Nodes) = reports

\* the program whose only statement after the prelude is s, at module level or in f
AtModule(s) == Module(Prelude \o <<s>>)
InFunction(s) == Module(Prelude \o <<FunctionDef("f", <<>>, <<s>>, <<>>), CallOf("f", <<>>)>>)
\* the nodes that statement produced in a finished run: after 'Variable: x = 1' of the
\* prelude, and in f between 'Function: f()' and 'Return: None'
StmtNodes ==
    IF prog.body[Len(prog.body)].type = "Expr" /\ Len(prog.body) = Len(Prelude) + 2
    THEN SubSeq(Nodes, 3, Len(Nodes) - 1)
    ELSE SubSeq(Nodes, 2, Len(Nodes))

\* for i in [1, ..., k]: x = 1
LoopOf(k) == For(Name("i"), ListTo(k), <<AssignName>>, <<>>)
IsLoopProgram(k) == prog \in {AtModule(LoopOf(k)), InFunction(LoopOf(k))}

\* C4 as stated: the loop over k items with one bare-name assignment as its body
\* produces 3k+1 nodes, the last of them the loop's only 'Loop End' node.
C4_ThreePerIterationPlusOne ==
    \A k \in 0..MaxIter :
        (Finished /\ IsLoopProgram(k)) =>
            /\ Len(StmtNodes) = 3 * k + 1
            /\ Len(OfKind(StmtNodes, "Loop End")) = 1

\* C4, amended: every iteration produces 'Loop Start', 'Loop Iteration', 'Variable'
\* and 'Loop End', in this order: 4k nodes for k items, and none for an empty sequence.
C4_FourPerIteration ==
    \A k \in 0..MaxIter :
        (Finished /\ IsLoopProgram(k)) =>
            /\ Len(StmtNodes) = 4 * k
            /\ \A i \in 1..k :
                    /\ StmtNodes[4 * i - 3].label = <<"Loop Start: ">> \o Unparse(Name("i"))
                                                        \o <<" in ">> \o Unparse(ListTo(k))
                    /\ StmtNodes[4 * i - 2].label = <<"Loop Iteration: ", ToString(i)>>
                    /\ StmtNodes[4 * i - 1].label = <<"Variable: ", "x", " = ", "1">>
                    /\ StmtNodes[4 * i].label = <<"Loop End">>

\* the loop over three items has run to completion in f
C4_Witness ==
    /\ Finished /\ prog = InFunction(LoopOf(3))
    /\ Len(StmtNodes) = 12
    /\ NumKind("Loop End") = 3

\* C5 as stated: a conditional whose test is true adds a 'Condition' node with the
\* test's text, then the 'If Branch ... Taken: True' node with the same text, then
\* the true branch's nodes: every 'Taken: True' node directly follows its 'Condition'
\* node, and no 'Taken: False' node is added for that conditional.
C5_ConditionThenBranch ==
    \A t \in Tests, e \in {<<>>, <<PrintStmt>>} :
        (Finished /\ prog = AtModule(If(t, <<AssignName>>, e)) /\ t # Constant(BoolV(FALSE))) =>
            /\ Len(StmtNodes) = 3
            /\ StmtNodes[1].label = <<"Condition: ">> \o Unparse(t)
            /\ StmtNodes[2].label = <<"If Branch: ">> \o Unparse(t) \o <<"\nTaken: ", "True">>
            /\ StmtNodes[3].label = <<"Variable: ", "x", " = ", "1">>

\* the shape of an assignment's targets
SingleBareName(s) == Len(s.targets) = 1 /\ s.targets[1].type = "Name"
Assignments == {AssignName, AssignTuple, AssignMulti, AssignAttribute, AssignSubscript}

\* C6 as stated: an assignment is followed by a 'Variable' node exactly when it has
\* a single target that is a bare name; every other target shape gives none.
C6_VariableIffSingleBareName ==
    \A s \in Assignments :
        (Finished /\ prog = AtModule(s)) =>
            Len(OfKind(StmtNodes, "Variable: ")) = IF SingleBareName(s) THEN 1 ELSE 0

\* 'Function:' nodes open a bracket and 'Return:' nodes close the innermost open one:
\* the names of the brackets open after the first i nodes, innermost first, and
\* whether every 'Return:' node so far had a bracket to close
RECURSIVE BracketsOf(_, _)
BracketsOf(nodes, i) ==
    IF i = 0 THEN [open |-> <<>>, ok |-> TRUE]
    ELSE LET b == BracketsOf(nodes, i - 1)
         IN  CASE Kind(nodes[i]) = "Function: " ->
                    [b EXCEPT !.open = <<nodes[i].label[2]>> \o @]
               [] Kind(nodes[i]) = "Return: " ->
                    IF b.open = <<>> THEN [b EXCEPT !.ok = FALSE]
                    ELSE [b EXCEPT !.open = Tail(@)]
               [] OTHER -> b
Brackets(i) == BracketsOf(Nodes, i)

\* C7: while no exception is in flight, 'Function:' and 'Return:' nodes bracket the
\* instrumented calls: every 'Return:' node closes the innermost open 'Function:'
\* node, the 'Function:' nodes still open are exactly the calls entered and not yet
\* returned (innermost first, so a call's nodes lie between its two nodes), a
\* finished run has closed them all, and a call of a function without
\* instrumentation sites gives 'Function:' and 'Return:' joined by one edge.
C7_FunctionReturnBracket ==
    (ctl.m # "raise") =>
        /\ LET b == Brackets(Len(Nodes))
           IN  /\ b.ok
               /\ b.open = [i \in 1..Len(ActiveCalls) |-> ActiveCalls[i].func.name]
        /\ (Finished /\ prog = InFunction(Pass)) =>
                /\ Len(StmtNodes) = 0
                /\ Nodes[2].label = <<"Function: ", "f", "(", ")">>
                /\ Nodes[3].label = <<"Return: ", "None">>
                /\ Len(SelectSeq(Edges, LAMBDA e : e = EdgeStmt(Nodes[2].name, Nodes[3].name))) = 1

\* f(2) has recursed twice and all three calls have returned
C7_Witness ==
    /\ Finished /\ prog \in RecursivePrograms
    /\ Kinds = <<"Function: ", "If Branch: ", "Function: ", "If Branch: ", "Function: ",
                 "Return: ", "Return: ", "Return: ">>

\* C8 as stated: every executed print, wherever it stands in the program, is one
\* call of the tracing wrapper: the i-th output is reported by the i-th 'Print' node,
\* which carries the repr of its positional arguments.
C8_EveryPrintTraced ==
    LET prints == OfKind(Nodes, "Print: ")
    IN  /\ Len(prints) = Len(out)
        /\ \A i \in 1..Len(out) :
                i <= Len(prints) =>
                    prints[i].label = <<"Print: ">>
                        \o Join(<<" ">>, [a \in 1..Len(out[i].args) |-> Repr(out[i].args[a])])

\* C9 as stated: current_function is the name of the innermost instrumented call
\* that has reported its entry and not yet its exit, and it is empty only when there
\* is no such call.
C9_CurrentFunctionIsInnermost ==
    /\ ActiveCalls # <<>> => current_function = StrV(<<ActiveCalls[1].func.name>>)
    /\ current_function = NoneV => ActiveCalls = <<>>

\* C10: while an exception raised in an instrumented function's body is in flight,
\* every step leaves the exception as it is (no wrapper catches or replaces it) and
\* leaves the graph, the counter and the path as they are (no 'Return:' node).
C10_ExceptionPropagates ==
    [][(status = "running" /\ ctl.m = "raise") =>
            /\ ctl' = ctl
            /\ dot' = dot
            /\ node_count' = node_count
            /\ execution_path' = execution_path]_vars

\* f called r, r printed and raised: the exception left both wrappers and exec
C10_Witness ==
    /\ status = "raised" /\ ctl.m = "raise"
    /\ Kinds = <<"Variable: ", "Function: ", "Function: ", "Print: ">>

\* C11: when the input file cannot be parsed, instrument_file fails at the parse:
\* the transformer's result is never executed (no statement of the program runs,
\* nothing is printed or returned), no node or edge is created, the session state
\* is as the constructor left it, and the renderer is not invoked.
C11_ParseFailureRunsNothing ==
    prog = Unparsable =>
        /\ status \in {"init", "raised"}
        /\ status = "raised" => ctl = CtlRaise(ExcV("SyntaxError"))
        /\ stack = <<>>
        /\ out = <<>> /\ returned = <<>> /\ reports = 0
        /\ globals = ModuleGlobals
        /\ dot = <<>> /\ node_count = 0 /\ execution_path = <<>>
        /\ current_function = NoneV /\ loop_stack = <<>>
        /\ rendered = <<>>

\* instrument_file was called on an unparsable file and the SyntaxError has left it
C11_Witness ==
    /\ prog = Unparsable
    /\ status = "raised"
    /\ ctl = CtlRaise(ExcV("SyntaxError"))

\* C12: in the command-line run the renderer is invoked at most once, only after
\* the instrumented program has run to completion, and with the graph that holds
\* the whole trace; a completed run always has the render call ahead of it; after
\* a failed parse or an uncaught exception the renderer is never invoked.
C12_RenderedOnceAfterCompletion ==
    /\ Len(rendered) <= 1
    /\ rendered # <<>> <=> status = "rendered"
    /\ status = "rendered" =>
            /\ rendered = <<dot>>
            /\ stack = <<>> /\ ctl = CtlNext
            /\ Len(Nodes) = node_count
    /\ status = "done" => ENABLED render
    /\ (status = "raised" \/ ctl.m = "raise") => rendered = <<>>

\* the loop over three items in f has run and its twelve nodes, with the four
\* around them, were handed to the renderer
C12_Witness ==
    /\ status = "rendered"
    /\ prog = InFunction(LoopOf(3))
    /\ Len(rendered) = 1
    /\ Len(SelectSeq(rendered[1], IsNode)) = 15

\* ------------------------------------------------------------------ two threads on the one visualizer

\* SpecThreads: the number of runtime API calls each thread makes
MaxCalls == 2

Threads == {1, 2}

\* a thread outside add_node; node_id and count are add_node's locals
IdleThread(calls) ==
    [pc |-> "idle", calls |-> calls, label |-> <<>>, shape |-> "", node_id |-> <<>>, count |-> 0]

\* interleaved: some step was taken while the other thread was inside add_node
InitThreads ==
    /\ VizInit
    /\ prog = Module(<<>>)
    /\ status = "threads"
    /\ stack = <<>>
    /\ ctl = CtlNext
    /\ globals = ModuleGlobals
    /\ out = <<>>
    /\ reports = 0
    /\ returned = <<>>
    /\ rendered = <<>>
    /\ heap = "0x7f01"       \* no object of a program is allocated
    /\ first = NoSession
    /\ threads = [th |-> [t \in Threads |-> IdleThread(0)], interleaved |-> FALSE]

Self(t) == threads.th[t]
OtherInside(t) == \E u \in Threads \ {t} : threads.th[u].pc # "idle"
\* thread t moves to the state s; the other thread keeps its own
Moved(t, s) ==
    [threads EXCEPT !.th[t] = s, !.interleaved = @ \/ OtherInside(t)]
NotViz == <<prog, rendered, heap, first, status, stack, ctl, globals, out, reports, returned>>

\* the thread calls the runtime API, thread 1 debug_variable('x', 1) and thread 2
\* debug_loop_end(): add_node is entered
thread_call(t) ==
    /\ status = "threads"
    /\ Self(t).pc = "idle" /\ Self(t).calls < MaxCalls
    /\ threads' = Moved(t, [Self(t) EXCEPT
            !.pc = "26",
            !.label = IF t = 1 THEN <<"Variable: ", "x", " = ", "1">> ELSE <<"Loop End">>,
            !.shape = IF t = 1 THEN "plaintext" ELSE "parallelogram"])
    /\ UNCHANGED <<vizVars, NotViz>>

\* line 26: node_id = f'node_{self.node_count}'
thread_read_counter(t) ==
    /\ Self(t).pc = "26"
    /\ threads' = Moved(t, [Self(t) EXCEPT !.pc = "29", !.node_id = NodeId(node_count)])
    /\ UNCHANGED <<vizVars, NotViz>>

\* line 29: self.dot.node(node_id, label, shape=shape)
thread_create_node(t) ==
    /\ Self(t).pc = "29"
    /\ dot' = Append(dot, NodeStmt(Self(t).node_id, Self(t).label, Self(t).shape))
    /\ threads' = Moved(t, [Self(t) EXCEPT !.pc = "30"])
    /\ UNCHANGED <<node_count, current_function, execution_path, loop_stack, NotViz>>

\* line 30, self.node_count += 1: the attribute is loaded ...
thread_load_count(t) ==
    /\ Self(t).pc = "30"
    /\ threads' = Moved(t, [Self(t) EXCEPT !.pc = "30s", !.count = node_count])
    /\ UNCHANGED <<vizVars, NotViz>>

\* the store of line 30 writing the loaded value back without the increment
thread_store_count_no_increment(t) ==
    /\ Self(t).pc = "30s"
    /\ node_count' = Self(t).count
    /\ threads' = Moved(t, [Self(t) EXCEPT !.pc = "31"])
    /\ UNCHANGED <<dot, current_function, execution_path, loop_stack, NotViz>>

\* ... and the sum is stored
thread_store_count(t) ==
    /\ Self(t).pc = "30s"
    /\ node_count' = Self(t).count + 1
    /\ threads' = Moved(t, [Self(t) EXCEPT !.pc = "31"])
    /\ UNCHANGED <<dot, current_function, execution_path, loop_stack, NotViz>>

\* lines 31-32: if self.execution_path: self.dot.edge(self.execution_path[-1], node_id)
thread_add_edge(t) ==
    /\ Self(t).pc = "31"
    /\ dot' = IF execution_path # <<>>
              THEN Append(dot, EdgeStmt(execution_path[Len(execution_path)], Self(t).node_id))
              ELSE dot
    /\ threads' = Moved(t, [Self(t) EXCEPT !.pc = "33"])
    /\ UNCHANGED <<node_count, current_function, execution_path, loop_stack, NotViz>>

\* lines 33-34: self.execution_path.append(node_id); return node_id
thread_append_path(t) ==
    /\ Self(t).pc = "33"
    /\ execution_path' = Append(execution_path, Self(t).node_id)
    /\ threads' = Moved(t, IdleThread(Self(t).calls + 1))
    /\ UNCHANGED <<dot, node_count, current_function, loop_stack, NotViz>>

NextThreads ==
    \E t \in Threads :
        \/ thread_call(t)
        \/ thread_read_counter(t)
        \/ thread_create_node(t)
        \/ thread_load_count(t)
        \/ thread_store_count(t)
        \/ thread_add_edge(t)
        \/ thread_append_path(t)

SpecThreads == InitThreads /\ [][NextThreads]_vars

\* both threads are outside add_node
Quiet == \A t \in Threads : threads.th[t].pc = "idle"
\* two nodes were created with the same identifier
DuplicateIds == \E i, j \in 1..Len(Nodes) : i # j /\ Nodes[i].name = Nodes[j].name
\* the edges are one simple path through the nodes in creation order
PathInCreationOrder ==
    /\ Len(Edges) = IF Nodes = <<>> THEN 0 ELSE Len(Nodes) - 1
    /\ \A k \in 1..Len(Edges) :
            Edges[k] = EdgeStmt(Nodes[k].name, Nodes[k + 1].name)

\* C13: with two threads calling the runtime API on the one visualizer and the
\* steps of add_node interleaving, a corrupted state (two nodes with one identifier,
\* or edges that are not one simple path in creation order) is reachable, and it is
\* reached only by interleaving: calls that do not overlap never corrupt the state.
C13_CorruptionByInterleaving ==
    (Quiet /\ (DuplicateIds \/ ~PathInCreationOrder)) => threads.interleaved

\* both threads read the counter before either stored it: two nodes named node_0 and
\* no edge between them
C13_Witness ==
    /\ Quiet
    /\ Len(Nodes) = 2
    /\ Nodes[1].name = NodeId(0) /\ Nodes[2].name = NodeId(0)
    /\ Edges = <<>>
    /\ ~PathInCreationOrder

\* ------------------------------------------------------------------ two sessions compared

\* the instrumented program with every runtime API call removed: the debug_function
\* decorators and the statements calling an entry point are dropped, and a call of
\* debug_print is a call of print
RECURSIVE Erase(_), EraseList(_), EraseStmts(_)
EraseList(xs) == [i \in 1..Len(xs) |-> Erase(xs[i])]
EraseStmts(stmts) ==
    IF stmts = <<>> THEN <<>>
    ELSE LET s == Head(stmts)
             report == /\ s.type = "Expr" /\ s.value.type = "Call"
                       /\ s.value.func.type = "Name"
                       /\ s.value.func.id \in ApiNames \ {"debug_print"}
         IN  (IF report THEN <<>> ELSE <<Erase(s)>>) \o EraseStmts(Tail(stmts))
Erase(node) ==
    CASE node.type = "Module" -> [node EXCEPT !.body = EraseStmts(@)]
      [] node.type = "FunctionDef" ->
            [node EXCEPT !.body = EraseStmts(@),
                         !.decorator_list =
                            SelectSeq(@, LAMBDA d : d # Name("debug_function"))]
      [] node.type = "For" ->
            [node EXCEPT !.iter = Erase(@), !.body = EraseStmts(@), !.orelse = EraseStmts(@)]
      [] node.type = "If" ->
            [node EXCEPT !.test = Erase(@), !.body = EraseStmts(@), !.orelse = EraseStmts(@)]
      [] node.type \in {"Assign", "Expr", "Return", "keyword", "Attribute"} ->
            [node EXCEPT !.value = Erase(@)]
      [] node.type = "Raise" -> [node EXCEPT !.exc = Erase(@)]
      [] node.type = "Call" ->
            [node EXCEPT !.func = IF @ = Name("debug_print") THEN Name("print") ELSE Erase(@),
                         !.args = EraseList(@), !.keywords = EraseList(@)]
      [] node.type \in {"Tuple", "List"} -> [node EXCEPT !.elts = EraseList(@)]
      [] node.type = "Subscript" -> [node EXCEPT !.value = Erase(@), !.slice = Erase(@)]
      [] node.type = "BinOp" -> [node EXCEPT !.left = Erase(@), !.right = Erase(@)]
      [] node.type = "Compare" ->
            [node EXCEPT !.left = Erase(@), !.comparators = EraseList(@)]
      [] OTHER -> node

\* what a session left behind: its output as text, the values its calls returned,
\* how it ended, and the labels of its nodes in creation order
Printed == [i \in 1..Len(out) |->
                [args |-> [a \in 1..Len(out[i].args) |-> Str(out[i].args[a])],
                 kwargs |-> out[i].kwargs]]
Labels == [i \in 1..Len(Nodes) |-> Nodes[i].label]
Session(mode, phase) ==
    [mode |-> mode, phase |-> phase, printed |-> Printed, returned |-> returned,
     status |-> status, ctl |-> ctl, labels |-> Labels]

\* the programs run in pairs of sessions
PairPrograms ==
    {AtModule(s) : s \in Nested1 \cup Nested2 \cup ExitLoops}
    \cup {InFunction(s) : s \in Simple}
    \cup RecursivePrograms

\* a pair of sessions on one program: the first runs the program with the API calls
\* removed ("erased") or instrumented, the second runs it instrumented
InitPair ==
    /\ VizInit
    /\ prog \in PairPrograms
    /\ status = "pair"
    /\ stack = <<>>
    /\ ctl = CtlNext
    /\ globals = ModuleGlobals
    /\ out = <<>>
    /\ reports = 0
    /\ returned = <<>>
    /\ rendered = <<>>
    /\ heap \in Addrs
    /\ \E mode \in {"erased", "instrumented"} : first = Session(mode, 1)
    /\ threads = NoThreads

first_session ==
    /\ status = "pair"
    /\ status' = "running"
    /\ stack' = <<BlockFrame(IF first.mode = "erased"
                             THEN Erase(visit(prog)).body
                             ELSE visit(prog).body)>>
    /\ ctl' = CtlNext
    /\ UNCHANGED <<vizVars, envVars, globals, out, reports, returned>>

\* the first session is over and recorded; the second starts from a fresh session
\* state, in the same process after an erased run, in a new process otherwise
second_session ==
    /\ status \in {"done", "raised"}
    /\ first.phase = 1
    /\ first' = Session(first.mode, 2)
    /\ dot' = <<>> /\ node_count' = 0 /\ current_function' = NoneV
    /\ execution_path' = <<>> /\ loop_stack' = <<>>
    /\ status' = "init"
    /\ stack' = <<>>
    /\ ctl' = CtlNext
    /\ globals' = ModuleGlobals
    /\ out' = <<>>
    /\ reports' = 0
    /\ returned' = <<>>
    /\ heap' \in (IF first.mode = "erased" THEN {heap} ELSE Addrs)
    /\ UNCHANGED <<prog, rendered, threads>>

NextPair ==
    \/ first_session
    \/ second_session
    \/ instrument_file
    \/ Exec

SpecPair == InitPair /\ [][NextPair]_vars

IsPrefix(s, t) == Len(s) <= Len(t) /\ SubSeq(t, 1, Len(s)) = s
Ended == status \in {"done", "raised"}

\* C14: instrumentation is transparent: at every moment of the instrumented run the
\* values the wrappers have returned and the output printed are a prefix of what the
\* same program with every runtime API call removed returned and printed, and when
\* the run ends the two are equal and the runs ended the same way (the same
\* uncaught exception, or none).
C14_Transparent ==
    (first.mode = "erased" /\ first.phase = 2) =>
        /\ IsPrefix(Printed, first.printed)
        /\ IsPrefix(returned, first.returned)
        /\ Ended =>
                /\ Printed = first.printed
                /\ returned = first.returned
                /\ status = first.status
                /\ ctl = first.ctl

\* both runs of a recursive program have ended: f returned three times, to itself
\* twice, through three wrappers in the instrumented run
C14_Witness ==
    /\ first.mode = "erased" /\ first.phase = 2
    /\ Ended
    /\ prog \in RecursivePrograms
    /\ Len(returned) = 3 /\ returned[1] = IntV(0)
    /\ NumKind("Return: ") = 3
    /\ first.labels = <<>>

\* C15 as stated: two sessions on the same program, each from a fresh session
\* state, end with the same number of nodes with the same labels, position by
\* position in creation order.
C15_SameLabelsInTwoSessions ==
    (first.mode = "instrumented" /\ first.phase = 2 /\ Ended) =>
        /\ Len(Nodes) = Len(first.labels)
        /\ \A i \in 1..Len(Nodes) : i <= Len(first.labels) => Nodes[i].label = first.labels[i]

\* the statements whose run ends without an exception
Quietly == Simple \ {CallR, RaiseStmt}
\* for i in [1, ..., k]: s
LoopWith(k, s) == For(Name("i"), ListTo(k), <<s>>, <<>>)

\* C16: in every iteration of an instrumented for-loop the first two nodes are
\* 'Loop Start: <target> in <iterable>' and then 'Loop Iteration: <value of the
\* target>', before any node of the body: in every trace a 'Loop Start' node is
\* directly followed by a 'Loop Iteration' node and a 'Loop Iteration' node directly
\* follows a 'Loop Start' node, and the finished loop over [1..k] leaves k equal
\* groups of nodes, the j-th beginning with 'Loop Start: i in [1, ..., k]' and
\* 'Loop Iteration: j' and holding no other node of these two kinds: k 'Loop Start'
\* nodes, not one.
C16_StartThenIterationEveryIteration ==
    /\ LET ks == Kinds
       IN  \A i \in 1..Len(ks) :
                /\ (ks[i] = "Loop Start: " /\ i < Len(ks)) => ks[i + 1] = "Loop Iteration: "
                /\ ks[i] = "Loop Iteration: " => (i > 1 /\ ks[i - 1] = "Loop Start: ")
    /\ Finished => \A k \in 1..MaxIter, s \in Quietly :
            prog \in {AtModule(LoopWith(k, s)), InFunction(LoopWith(k, s))} =>
                LET m == Len(StmtNodes) \div k
                IN  /\ Len(StmtNodes) = m * k
                    /\ Len(OfKind(StmtNodes, "Loop Start: ")) = k
                    /\ \A j \in 1..k :
                            /\ StmtNodes[(j - 1) * m + 1].label =
                                    <<"Loop Start: ">> \o Unparse(Name("i")) \o <<" in ">>
                                        \o Unparse(ListTo(k))
                            /\ StmtNodes[(j - 1) * m + 2].label =
                                    <<"Loop Iteration: ", ToString(j)>>
                            /\ \A q \in 3..m :
                                    Kind(StmtNodes[(j - 1) * m + q])
                                        \notin {"Loop Start: ", "Loop Iteration: "}

\* the loop over [1, 2, 3] with print(1) as its body has run at module level
C16_Witness ==
    /\ Finished /\ prog = AtModule(LoopWith(3, PrintStmt))
    /\ Kinds = <<"Variable: ",
                 "Loop Start: ", "Loop Iteration: ", "Print: ", "Loop End",
                 "Loop Start: ", "Loop Iteration: ", "Print: ", "Loop End",
                 "Loop Start: ", "Loop Iteration: ", "Print: ", "Loop End">>
    /\ Nodes[11].label = <<"Loop Iteration: ", "3">>

\* the outcome of a test of the programs (x is 1 and h(1) returns 1)
Outcome(t) ==
    IF HasCall(t) THEN 1 > t.comparators[1].value.n
    ELSE Truthy(EvalPure(<<>>, [x |-> IntV(1)], t))
\* the nodes the evaluation of a test creates: those of its call of h, if it makes one
TestLabels(t) ==
    IF HasCall(t) THEN <<<<"Function: ", "h", "(", "1", ")">>, <<"Return: ", "1">>>> ELSE <<>>
\* the nodes of the statements x = 1 and print(1)
ArmLabels(arm) ==
    IF arm = <<AssignName>> THEN <<<<"Variable: ", "x", " = ", "1">>>>
    ELSE IF arm = <<PrintStmt>> THEN <<<<"Print: ", "1">>>>
    ELSE <<>>
IsBranchNode(n) == Kind(n) = "If Branch: "
StmtLabels == [i \in 1..Len(StmtNodes) |-> StmtNodes[i].label]

\* C17: an executed conditional with a false branch creates exactly one 'If Branch'
\* node; its tag is 'True' or 'False' as the test came out; the nodes after it are
\* exactly those of the arm that ran, so it precedes them all; and what comes before
\* it holds the nodes of one evaluation of the test and no more (a test calling h
\* shows one 'Function: h(1)' node).
C17_OneBranchNodeWithOutcome ==
    \A t \in Tests \cup CallTests, e \in {<<AssignName>>, <<PrintStmt>>} :
        LET c == If(t, <<AssignName>>, e)
            arm == IF Outcome(t) THEN <<AssignName>> ELSE e
        IN  (Finished /\ prog \in {AtModule(c), InFunction(c)}) =>
                /\ Len(SelectSeq(StmtNodes, IsBranchNode)) = 1
                /\ \E p \in 1..Len(StmtNodes) :
                        /\ StmtNodes[p].label =
                                <<"If Branch: ">> \o Unparse(t)
                                    \o <<"\nTaken: ", IF Outcome(t) THEN "True" ELSE "False">>
                        /\ SubSeq(StmtLabels, p + 1, Len(StmtNodes)) = ArmLabels(arm)
                        /\ Len(SelectSeq(SubSeq(StmtLabels, 1, p - 1),
                                         LAMBDA l : l = <<"Function: ", "h", "(", "1", ")">>))
                                = Len(TestLabels(t)) \div 2

\* 'if h(1) > 5: x = 1 else: print(1)' has run in f: h was called once, the test was
\* false and print(1) ran
C17_Witness ==
    /\ Finished
    /\ prog = InFunction(If(Compare(Call(Name("h"), <<Num(1)>>, <<>>), <<">">>, <<Num(5)>>),
                            <<AssignName>>, <<PrintStmt>>))
    /\ StmtLabels = <<<<"Function: ", "h", "(", "1", ")">>, <<"Return: ", "1">>,
                      <<"If Branch: ", "h", "(", "1", ")", " ", ">", " ", "5",
                        "\nTaken: ", "False">>,
                      <<"Print: ", "1">>>>

\* C18 as stated: an executed conditional without a false branch whose test is false
\* creates no node and no edge and leaves counter, path and current function as
\* they were: at module level the session holds the one node of the prelude.
C18_FalseTestInvisible ==
    \A t \in Tests \cup CallTests :
        (Finished /\ ~Outcome(t) /\ prog = AtModule(If(t, <<AssignName>>, <<>>))) =>
            /\ StmtNodes = <<>>
            /\ Edges = <<>>
            /\ node_count = 1
            /\ execution_path = <<NodeId(0)>>
            /\ current_function = NoneV

\* C18, amended: such a conditional creates no node of its own: the nodes and edges
\* since the prelude are exactly those of the calls made while the test was
\* evaluated, and when the test makes no call there is no node and no edge and
\* counter, path and current function are as they were.
C18_FalseTestAddsOnlyTestNodes ==
    \A t \in Tests \cup CallTests :
        LET c == If(t, <<AssignName>>, <<>>)
        IN  (Finished /\ ~Outcome(t) /\ prog \in {AtModule(c), InFunction(c)}) =>
                /\ StmtLabels = TestLabels(t)
                /\ (~HasCall(t) /\ prog = AtModule(c)) =>
                        /\ Edges = <<>>
                        /\ node_count = 1
                        /\ execution_path = <<NodeId(0)>>
                        /\ current_function = NoneV

\* 'if False: x = 1' has run at module level
C18_Witness ==
    /\ Finished
    /\ prog = AtModule(If(Constant(BoolV(FALSE)), <<AssignName>>, <<>>))
    /\ Len(Nodes) = 1 /\ node_count = 1

Min(a, b) == IF a < b THEN a ELSE b
\* an iteration's body has run to its last statement: the body's block, the one
\* lying directly on the loop's frame, has no statement left
IterationComplete ==
    /\ Running /\ ctl.m = "next"
    /\ Len(stack) >= 2
    /\ stack[1].k = "block" /\ stack[1].stmts = <<>>
    /\ stack[2].k = "for"

\* C19: at every moment there are at most as many 'Loop End' nodes as 'Loop Start'
\* nodes; an iteration whose body ran to its last statement has just created one;
\* an iteration left by break, continue, return or an exception creates none: of
\* the loop over [1..k] whose iterations after the first are left that way only the
\* first gives a 'Loop End' node, a loop left in its first statement gives none, and
\* a loop whose body always completes gives k; a loop over an empty sequence
\* creates no node at all.
C19_LoopEndPerCompletedIteration ==
    /\ LET ks == Kinds
       IN  Cardinality({i \in 1..Len(ks) : ks[i] = "Loop End"})
                <= Cardinality({i \in 1..Len(ks) : ks[i] = "Loop Start: "})
    /\ IterationComplete => Kind(Nodes[Len(Nodes)]) = "Loop End"
    /\ Ended => \A k \in 0..MaxIter :
        /\ \A e \in {Break, Continue, RaiseStmt, Return(Num(5))} :
                prog \in {AtModule(ExitLoop(k, e)), InFunction(ExitLoop(k, e))} =>
                    /\ NumKind("Loop End") = Min(k, 1)
                    /\ NumKind("Loop Start: ") = IF e = Continue THEN k ELSE Min(k, 2)
        /\ \A e \in {Break, Continue, RaiseStmt} :
                prog \in {AtModule(LoopWith(k, e)), InFunction(LoopWith(k, e))} =>
                    /\ NumKind("Loop End") = 0
                    /\ NumKind("Loop Start: ") = IF e = Continue THEN k ELSE Min(k, 1)
        /\ \A s \in Quietly :
                prog \in {AtModule(LoopWith(k, s)), InFunction(LoopWith(k, s))} =>
                    NumKind("Loop End") = k
    /\ Ended => \A s \in Simple \cup {Break, Continue} :
            prog \in {AtModule(LoopWith(0, s)), InFunction(LoopWith(0, s))} =>
                StmtNodes = <<>>

\* in f, the loop over [1, 2, 3] was left by return in its second iteration: two
\* 'Loop Start' nodes and the 'Loop End' node of the first iteration
C19_Witness ==
    /\ Finished
    /\ prog = InFunction(ExitLoop(3, Return(Num(5))))
    /\ Kinds = <<"Variable: ", "Function: ",
                 "Loop Start: ", "Loop Iteration: ", "Print: ", "Loop End",
                 "Loop Start: ", "Loop Iteration: ", "If Branch: ",
                 "Return: ">>

====
